---- MODULE Spec2Model ----
(***************************************************************************)
(* Smithery MCP agent sample: the server registry shared by the agent and  *)
(* the MCPServerManagerTool, the tools that shell out to the Smithery CLI, *)
(* and the two inline function tools of the agent.                         *)
(*                                                                         *)
(* One tool call is three steps: the planner issues the call (Invoke), the *)
(* tool's execute runs as a whole (one Execute action per tool), and the   *)
(* planner takes the result (Consume).                                     *)
(***************************************************************************)
EXTENDS Integers, Sequences, FiniteSets, TLC

VARIABLES heap, agent_installed_servers, manager_installed_servers, smithery_config, default_client, pc, call, result, proc, started, pre_heap, installed

\* started, pre_heap and installed are history: the names start was ever issued for, the
\* heap as the call being answered found it, and (where a specification records it) the
\* names install has reported installed.
vars == <<heap, agent_installed_servers, manager_installed_servers, smithery_config, default_client, pc, call, result, proc, started, pre_heap, installed>>

(***************************************************************************)
(* Bounds of the model.                                                    *)
(***************************************************************************)
MaxServers == 2

MaxVals == 2

MaxBytes == 2

(***************************************************************************)
(* Python values: None, str and dict, with Python's truthiness.            *)
(***************************************************************************)
None == [type |-> "NoneType"]

Str(s) == [type |-> "str", val |-> s]

Dict(f) == [type |-> "dict", items |-> f]

EmptyMapping == Dict(<<>>)

Truthy(v) == CASE v.type = "NoneType" -> FALSE [] v.type = "str" -> v.val # "" [] v.type = "dict" -> DOMAIN v.items # {}

\* Python's `a or b`.
Or(a, b) == IF Truthy(a) THEN a ELSE b

IsMapping(v) == v.type = "dict"

(***************************************************************************)
(* A Python dict keyed by server name: the keys in insertion order and the *)
(* value of each key.                                                      *)
(***************************************************************************)
EmptyDict == [order |-> <<>>, val |-> <<>>]

Keys(d) == {d.order[i] : i \in 1..Len(d.order)}

Has(d, k) == k \in Keys(d)

\* d[k] = v : a new key goes last, an existing key keeps its place.
SetItem(d, k, v) == [order |-> IF Has(d, k) THEN d.order ELSE Append(d.order, k), val |-> [x \in Keys(d) \cup {k} |-> IF x = k THEN v ELSE d.val[x]]]

(***************************************************************************)
(* Inputs.                                                                 *)
(***************************************************************************)
NamePool == <<"exa", "@mnhlt/WebSearch-MCP", "filesystem", "github">>

ServerNames == {NamePool[i] : i \in 1..MaxServers}

ValPool == <<"v1", "v2", "v3", "v4">>

Vals == {ValPool[i] : i \in 1..MaxVals}

Configs == {EmptyMapping} \cup {Dict([k \in {"key"} |-> v]) : v \in Vals}

OptConfigs == {None} \cup Configs

Actions == {"start", "stop", "configure", "status", "restart", "START", ""}

ManagerCalls == [tool : {"mcp_server_manager"}, action : Actions, server_name : ServerNames, config : OptConfigs]

Clients == {None, Str(""), Str("cursor")}

ConfigFiles == {None, Str(""), Str("config.json")}

InstallCalls == [tool : {"smithery_install"}, server_name : ServerNames, client : Clients, config_file : ConfigFiles]

BasicInstallCalls == [tool : {"smithery_install"}, server_name : ServerNames, client : {None}, config_file : {None}]

InspectCalls == [tool : {"smithery_inspect"}, server_name : ServerNames]

SearchCalls == [tool : {"smithery_search"}, query : {"web search", "exa", ""}, limit : {10, 5, 1, 0}]

BasicSearchCalls == [tool : {"smithery_search"}, query : {"web search"}, limit : {10}]

ListCalls == [tool : {"list_installed_servers"}]

ExecCalls == [tool : {"execute_mcp_tool"}, server_name : ServerNames, tool_name : {"web_search"}, arguments : {None, Dict([query |-> "adk"])}]

\* The smithery_config the agent is built with.
SmitheryConfigs == {None, EmptyMapping, Dict([default_client |-> "cursor"])}

NoCall == [tool |-> "none"]

NoResult == [kind |-> "none"]

NoProc == [kind |-> "none"]

Return(h, v) == [heap |-> h, kind |-> "return", value |-> v]

(***************************************************************************)
(* MCPServerManagerTool.  Each handler takes the heap and the tool's       *)
(* reference to the registry and gives the heap it leaves and what it      *)
(* returns.                                                                *)
(***************************************************************************)
SimulatedPID == 12345

\* As __init__, keeping a copy of the dict it is given (dict(installed_servers)).
MCPServerManagerTool__init__copies(installed_servers, fresh) == fresh

\* MCPServerManagerTool.__init__: keeps the reference it is given.
MCPServerManagerTool__init__(installed_servers, fresh) == installed_servers

\* As _start_server, storing the config argument as given (no `or {}`).
_start_server_keeps_none(h, self, server_name, config) ==
  Return([h EXCEPT ![self] = SetItem(@, server_name, [status |-> "running", config |-> config, pid |-> SimulatedPID])],
         [server |-> server_name, action |-> "start", status |-> "success", message |-> <<"Server ", server_name, " started successfully">>])

_start_server(h, self, server_name, config) ==
  Return([h EXCEPT ![self] = SetItem(@, server_name, [status |-> "running", config |-> Or(config, EmptyMapping), pid |-> SimulatedPID])],
         [server |-> server_name, action |-> "start", status |-> "success", message |-> <<"Server ", server_name, " started successfully">>])

\* As _stop_server, replacing the whole record instead of its status.
_stop_server_new_record(h, self, server_name) ==
  IF Has(h[self], server_name)
  THEN Return([h EXCEPT ![self].val[server_name] = [status |-> "stopped", config |-> EmptyMapping, pid |-> SimulatedPID]],
              [server |-> server_name, action |-> "stop", status |-> "success", message |-> <<"Server ", server_name, " stopped successfully">>])
  ELSE Return(h, [server |-> server_name, action |-> "stop", status |-> "error", message |-> <<"Server ", server_name, " not found">>])

_stop_server(h, self, server_name) ==
  IF Has(h[self], server_name)
  THEN Return([h EXCEPT ![self].val[server_name].status = "stopped"],
              [server |-> server_name, action |-> "stop", status |-> "success", message |-> <<"Server ", server_name, " stopped successfully">>])
  ELSE Return(h, [server |-> server_name, action |-> "stop", status |-> "error", message |-> <<"Server ", server_name, " not found">>])

\* As _configure_server, updating the stored config with the new keys (dict.update) instead of replacing it.
_configure_server_merge(h, self, server_name, config) ==
  IF Has(h[self], server_name)
  THEN LET old == h[self].val[server_name].config
           merged == IF old.type = "dict" /\ config.type = "dict" THEN Dict([k \in DOMAIN old.items \cup DOMAIN config.items |-> IF k \in DOMAIN config.items THEN config.items[k] ELSE old.items[k]]) ELSE config
       IN Return([h EXCEPT ![self].val[server_name].config = merged],
                 [server |-> server_name, action |-> "configure", status |-> "success", config |-> config])
  ELSE Return(h, [server |-> server_name, action |-> "configure", status |-> "error", message |-> <<"Server ", server_name, " not found">>])

\* As _configure_server, creating the record when the server has none.
_configure_server_upsert(h, self, server_name, config) ==
  IF Has(h[self], server_name)
  THEN Return([h EXCEPT ![self].val[server_name].config = config],
              [server |-> server_name, action |-> "configure", status |-> "success", config |-> config])
  ELSE Return([h EXCEPT ![self] = SetItem(@, server_name, [status |-> "stopped", config |-> config, pid |-> SimulatedPID])],
              [server |-> server_name, action |-> "configure", status |-> "success", config |-> config])

_configure_server(h, self, server_name, config) ==
  IF Has(h[self], server_name)
  THEN Return([h EXCEPT ![self].val[server_name].config = config],
              [server |-> server_name, action |-> "configure", status |-> "success", config |-> config])
  ELSE Return(h, [server |-> server_name, action |-> "configure", status |-> "error", message |-> <<"Server ", server_name, " not found">>])

\* As _get_status, looking the record up with setdefault.
_get_status_setdefault(h, self, server_name) ==
  IF Has(h[self], server_name)
  THEN Return(h, [server |-> server_name, info |-> h[self].val[server_name]])
  ELSE Return([h EXCEPT ![self] = SetItem(@, server_name, [status |-> "stopped", config |-> EmptyMapping, pid |-> SimulatedPID])],
              [server |-> server_name, status |-> "not_installed"])

_get_status(h, self, server_name) ==
  IF Has(h[self], server_name)
  THEN Return(h, [server |-> server_name, info |-> h[self].val[server_name]])
  ELSE Return(h, [server |-> server_name, status |-> "not_installed"])

\* As execute, listing the valid actions in alphabetical order.
MCPServerManagerTool_execute_sorted(h, self, action, server_name, config) ==
  CASE action = "start" -> _start_server(h, self, server_name, config)
    [] action = "stop" -> _stop_server(h, self, server_name)
    [] action = "configure" -> _configure_server(h, self, server_name, config)
    [] action = "status" -> _get_status(h, self, server_name)
    [] OTHER -> Return(h, [error |-> <<"Unknown action: ", action>>, valid_actions |-> <<"configure", "start", "status", "stop">>])

MCPServerManagerTool_execute(h, self, action, server_name, config) ==
  CASE action = "start" -> _start_server(h, self, server_name, config)
    [] action = "stop" -> _stop_server(h, self, server_name)
    [] action = "configure" -> _configure_server(h, self, server_name, config)
    [] action = "status" -> _get_status(h, self, server_name)
    [] OTHER -> Return(h, [error |-> <<"Unknown action: ", action>>, valid_actions |-> <<"start", "stop", "configure", "status">>])

(***************************************************************************)
(* bytes.decode(): strict UTF-8.  A byte string is a sequence of 0..255, a *)
(* str a sequence of code points.  A failure names the first byte of the   *)
(* offending sequence and its 0-based position, as UnicodeDecodeError does.*)
(***************************************************************************)
utf8_len(b) == CASE b < 128 -> 1 [] b >= 194 /\ b <= 223 -> 2 [] b >= 224 /\ b <= 239 -> 3 [] b >= 240 /\ b <= 244 -> 4 [] OTHER -> 0

\* The range of the second byte depends on the lead byte (no overlong forms, no surrogates, nothing past U+10FFFF).
utf8_second_ok(lead, b) == CASE lead = 224 -> b >= 160 /\ b <= 191 [] lead = 237 -> b >= 128 /\ b <= 159 [] lead = 240 -> b >= 144 /\ b <= 191 [] lead = 244 -> b >= 128 /\ b <= 143 [] OTHER -> b >= 128 /\ b <= 191

utf8_cont_ok(bytes, i, j) == IF j = 1 THEN utf8_second_ok(bytes[i], bytes[i + 1]) ELSE bytes[i + j] >= 128 /\ bytes[i + j] <= 191

utf8_code_point(bytes, i, n) ==
  CASE n = 1 -> bytes[i]
    [] n = 2 -> (bytes[i] - 192) * 64 + (bytes[i + 1] - 128)
    [] n = 3 -> (bytes[i] - 224) * 4096 + (bytes[i + 1] - 128) * 64 + (bytes[i + 2] - 128)
    [] n = 4 -> (bytes[i] - 240) * 262144 + (bytes[i + 1] - 128) * 4096 + (bytes[i + 2] - 128) * 64 + (bytes[i + 3] - 128)

RECURSIVE utf8_decode(_, _, _)
utf8_decode(bytes, i, acc) ==
  IF i > Len(bytes) THEN [ok |-> TRUE, text |-> acc]
  ELSE LET n == utf8_len(bytes[i])
       IN IF n = 0 \/ i + n - 1 > Len(bytes) \/ \E j \in 1..(n - 1) : ~utf8_cont_ok(bytes, i, j)
          THEN [ok |-> FALSE, byte |-> bytes[i], pos |-> i - 1]
          ELSE utf8_decode(bytes, i + n, Append(acc, utf8_code_point(bytes, i, n)))

decode(bytes) == utf8_decode(bytes, 1, <<>>)

UnicodeDecodeError(d) == [type |-> "UnicodeDecodeError", str |-> <<"'utf-8' codec can't decode byte ", d.byte, " in position ", d.pos>>]

(***************************************************************************)
(* The external command.  An outcome is what the operating system and the  *)
(* child process produce for one create_subprocess_exec + communicate: the *)
(* spawn fails with an OSError, or the child exits with a return code and  *)
(* the bytes it wrote to stdout and stderr.                                *)
(***************************************************************************)
ExitCodes == {0, 1, -9}

SpawnErrors == {"FileNotFoundError", "PermissionError"}

ByteAlphabet == {65, 195, 169}

RECURSIVE SeqsUpTo(_, _)
SeqsUpTo(S, n) == IF n = 0 THEN {<<>>} ELSE LET T == SeqsUpTo(S, n - 1) IN T \cup {Append(t, x) : t \in {u \in T : Len(u) = n - 1}, x \in S}

ByteStrs == SeqsUpTo(ByteAlphabet, MaxBytes)

\* "Tool: A" / "function: A" on two lines, as the CLI's inspect prints a tool list.
SampleOutput == <<84, 111, 111, 108, 58, 32, 65, 10, 102, 117, 110, 99, 116, 105, 111, 110, 58, 32, 65, 10>>

Outcomes(Out, Err) == [kind : {"spawn_error"}, exc : SpawnErrors] \cup [kind : {"exited"}, returncode : ExitCodes, stdout : Out, stderr : Err]

AllOutcomes == Outcomes(ByteStrs \cup {SampleOutput}, ByteStrs)

BasicOutcomes == Outcomes({SampleOutput}, {<<65>>})

\* The exception classes `except Exception` catches (CancelledError and the other BaseExceptions are not among them).
ExceptionClasses == {"RuntimeError", "UnicodeDecodeError", "FileNotFoundError", "PermissionError", "OSError", "TypeError"}

Raise(e) == [raised |-> TRUE, exc |-> e]

Value(v) == [raised |-> FALSE, value |-> v]

\* " ".join(cmd_parts): the parts with a space between, one string.
RECURSIVE join(_)
join(parts) == IF Len(parts) <= 1 THEN parts ELSE <<parts[1], " ">> \o join(Tail(parts))

(***************************************************************************)
(* SmitheryInstallTool.                                                    *)
(***************************************************************************)
\* __init__: self.config = config or {}; self.default_client = self.config.get("default_client", "claude").
SmitheryInstallTool__init__(config) == LET c == Or(config, EmptyMapping) IN IF "default_client" \in DOMAIN c.items THEN c.items["default_client"] ELSE "claude"

\* asyncio.create_subprocess_exec(*cmd_parts): the argument vector the child is run with, each
\* part one argument, no shell in between.
create_subprocess_exec(cmd_parts) == cmd_parts

SmitheryInstallTool_run_command(cmd_parts, outcome) ==
  IF outcome.kind = "spawn_error" THEN Raise([type |-> outcome.exc, str |-> <<"[Errno] ", cmd_parts[1]>>])
  ELSE IF outcome.returncode # 0
       THEN LET err == decode(outcome.stderr)
            IN IF err.ok THEN Raise([type |-> "RuntimeError", str |-> <<"Command failed: ", err.text>>]) ELSE Raise(UnicodeDecodeError(err))
       ELSE LET out == decode(outcome.stdout)
                err == decode(outcome.stderr)
            IN IF ~out.ok THEN Raise(UnicodeDecodeError(out))
               ELSE IF ~err.ok THEN Raise(UnicodeDecodeError(err))
               ELSE Value(<<out.text, err.text>>)

\* As the command construction of execute, with "claude" for a missing client whatever the configuration says.
SmitheryInstallTool_cmd_parts_claude(self_default_client, server_name, client, config_file) ==
  <<"npx", "-y", "@smithery/cli", "install", server_name, "--client", Or(client, Str("claude")).val>> \o (IF Truthy(config_file) THEN <<"--config", config_file.val>> ELSE <<>>)

SmitheryInstallTool_cmd_parts(self_default_client, server_name, client, config_file) ==
  <<"npx", "-y", "@smithery/cli", "install", server_name, "--client", Or(client, Str(self_default_client)).val>> \o (IF Truthy(config_file) THEN <<"--config", config_file.val>> ELSE <<>>)

SmitheryInstallTool_execute(self_default_client, server_name, client, config_file, outcome) ==
  LET client1 == Or(client, Str(self_default_client)).val
      cmd_parts == SmitheryInstallTool_cmd_parts(self_default_client, server_name, client, config_file)
      r == SmitheryInstallTool_run_command(cmd_parts, outcome)
  IN IF ~r.raised
     THEN [kind |-> "return", value |-> [server |-> server_name, client |-> client1, status |-> "installed", output |-> r.value[1], command |-> join(cmd_parts)]]
     ELSE IF r.exc.type \in ExceptionClasses
          THEN [kind |-> "return", value |-> [server |-> server_name, client |-> client1, status |-> "failed", error |-> r.exc.str, command |-> join(cmd_parts)]]
          ELSE [kind |-> "raise", value |-> r.exc]

(***************************************************************************)
(* SmitheryInspectTool.                                                    *)
(***************************************************************************)
SmitheryInspectTool_run_command(cmd_parts, outcome) ==
  IF outcome.kind = "spawn_error" THEN Raise([type |-> outcome.exc, str |-> <<"[Errno] ", cmd_parts[1]>>])
  ELSE IF outcome.returncode # 0
       THEN LET err == decode(outcome.stderr)
            IN IF err.ok THEN Raise([type |-> "RuntimeError", str |-> <<"Command failed: ", err.text>>]) ELSE Raise(UnicodeDecodeError(err))
       ELSE LET out == decode(outcome.stdout)
                err == decode(outcome.stderr)
            IN IF ~out.ok THEN Raise(UnicodeDecodeError(out))
               ELSE IF ~err.ok THEN Raise(UnicodeDecodeError(err))
               ELSE Value(<<out.text, err.text>>)

\* str.strip(), str.split('\n') and str.lower() on code points.  The needles "tool:" and
\* "function:" are ASCII, and no non-ASCII character lowers to one of their letters alone,
\* so lowering A-Z decides the test.
Whitespace == {9, 10, 11, 12, 13, 28, 29, 30, 31, 32, 133, 160}

RECURSIVE lstrip(_)
lstrip(s) == IF s # <<>> /\ Head(s) \in Whitespace THEN lstrip(Tail(s)) ELSE s

RECURSIVE rstrip(_)
rstrip(s) == IF s # <<>> /\ s[Len(s)] \in Whitespace THEN rstrip(SubSeq(s, 1, Len(s) - 1)) ELSE s

strip(s) == rstrip(lstrip(s))

RECURSIVE split(_, _)
split(s, sep) ==
  IF \A i \in 1..Len(s) : s[i] # sep THEN <<s>>
  ELSE LET i == CHOOSE k \in 1..Len(s) : s[k] = sep /\ \A m \in 1..(k - 1) : s[m] # sep
       IN <<SubSeq(s, 1, i - 1)>> \o split(SubSeq(s, i + 1, Len(s)), sep)

lower(s) == [i \in 1..Len(s) |-> IF s[i] >= 65 /\ s[i] <= 90 THEN s[i] + 32 ELSE s[i]]

Contains(s, needle) == \E i \in 1..(Len(s) - Len(needle) + 1) : SubSeq(s, i, i + Len(needle) - 1) = needle

RECURSIVE parse_lines(_)
parse_lines(lines) ==
  IF lines = <<>> THEN <<>>
  ELSE (IF Contains(lower(Head(lines)), <<116, 111, 111, 108, 58>>) \/ Contains(lower(Head(lines)), <<102, 117, 110, 99, 116, 105, 111, 110, 58>>)
        THEN <<[name |-> "extracted_tool_name", description |-> "Tool description from output"]>> ELSE <<>>) \o parse_lines(Tail(lines))

_parse_tools_from_output(output) == parse_lines(split(strip(output), 10))

SmitheryInspectTool_execute(server_name, outcome) ==
  LET cmd_parts == <<"npx", "-y", "@smithery/cli@latest", "inspect", server_name>>
      r == SmitheryInspectTool_run_command(cmd_parts, outcome)
  IN IF ~r.raised
     THEN [kind |-> "return", value |-> [server |-> server_name, status |-> "success", output |-> r.value[1], tools |-> _parse_tools_from_output(r.value[1])]]
     ELSE IF r.exc.type \in ExceptionClasses
          THEN [kind |-> "return", value |-> [server |-> server_name, status |-> "failed", error |-> r.exc.str]]
          ELSE [kind |-> "raise", value |-> r.exc]

(***************************************************************************)
(* SmitherySearchTool: a fixed result list.                                *)
(***************************************************************************)
\* As execute, cutting the result list to the first `limit` records (results[:limit]).
SmitherySearchTool_execute_limit(query, limit) ==
  LET all == <<[name |-> "exa", description |-> "Fast, intelligent web search and crawling", package |-> "exa", remote |-> TRUE, tools_count |-> 6],
               [name |-> "@mnhlt/WebSearch-MCP", description |-> "Self-hosted web search API", package |-> "@mnhlt/WebSearch-MCP", remote |-> FALSE, tools_count |-> 1]>>
  IN [kind |-> "return",
      value |-> [query |-> query, results |-> SubSeq(all, 1, IF limit < Len(all) THEN limit ELSE Len(all)), note |-> "This is a simulated search. In production, use Smithery's API"]]

SmitherySearchTool_execute(query, limit) ==
  [kind |-> "return",
   value |-> [query |-> query,
              results |-> <<[name |-> "exa", description |-> "Fast, intelligent web search and crawling", package |-> "exa", remote |-> TRUE, tools_count |-> 6],
                            [name |-> "@mnhlt/WebSearch-MCP", description |-> "Self-hosted web search API", package |-> "@mnhlt/WebSearch-MCP", remote |-> FALSE, tools_count |-> 1]>>,
              note |-> "This is a simulated search. In production, use Smithery's API"]]

(***************************************************************************)
(* The agent's inline function tools.                                      *)
(***************************************************************************)
_list_installed_servers(h, self) == Return(h, [installed_servers |-> h[self], count |-> Len(h[self].order)])

\* As _execute_mcp_tool, registering a server it does not find instead of refusing.
_execute_mcp_tool_autostart(h, self, server_name, tool_name, arguments) ==
  Return(IF Has(h[self], server_name) THEN h ELSE [h EXCEPT ![self] = SetItem(@, server_name, [status |-> "running", config |-> EmptyMapping, pid |-> SimulatedPID])],
         [server |-> server_name, tool |-> tool_name, arguments |-> arguments, status |-> "executed",
          note |-> "In a real implementation, this would connect to the MCP server and execute the tool"])

\* As _execute_mcp_tool, taking a stopped server for a missing one.
_execute_mcp_tool_running_only(h, self, server_name, tool_name, arguments) ==
  IF ~Has(h[self], server_name) \/ h[self].val[server_name].status # "running"
  THEN Return(h, [error |-> <<"Server '", server_name, "' not installed. Available servers: ", h[self].order>>])
  ELSE Return(h, [server |-> server_name, tool |-> tool_name, arguments |-> arguments, status |-> "executed",
                  note |-> "In a real implementation, this would connect to the MCP server and execute the tool"])

_execute_mcp_tool(h, self, server_name, tool_name, arguments) ==
  IF ~Has(h[self], server_name)
  THEN Return(h, [error |-> <<"Server '", server_name, "' not installed. Available servers: ", h[self].order>>])
  ELSE Return(h, [server |-> server_name, tool |-> tool_name, arguments |-> arguments, status |-> "executed",
                  note |-> "In a real implementation, this would connect to the MCP server and execute the tool"])

(***************************************************************************)
(* The system.                                                             *)
(***************************************************************************)
DictIds == {"agent.installed_servers", "copy"}

\* SmitheryMCPAgent.__init__ and _initialize_tools: one registry, empty, whose
\* reference the agent keeps and hands to the manager tool.
InitWith(configs) ==
  /\ heap = [o \in DictIds |-> EmptyDict]
  /\ agent_installed_servers = "agent.installed_servers"
  /\ manager_installed_servers = MCPServerManagerTool__init__("agent.installed_servers", "copy")
  /\ \E config \in configs : smithery_config = Or(config, EmptyMapping)
  /\ default_client = SmitheryInstallTool__init__(smithery_config)
  /\ pc = "idle"
  /\ call = NoCall
  /\ result = NoResult
  /\ proc = NoProc
  /\ started = {}
  /\ pre_heap = [o \in DictIds |-> EmptyDict]
  /\ installed = {}

Init == InitWith({None})

InitCmd == InitWith(SmitheryConfigs)

\* The planner issues a tool call.
Invoke(Calls) ==
  /\ pc = "idle"
  /\ \E c \in Calls : call' = c
  /\ pc' = "calling"
  /\ UNCHANGED <<heap, agent_installed_servers, manager_installed_servers, smithery_config, default_client, result, proc, started, pre_heap, installed>>

ManagerExecute ==
  /\ pc = "calling"
  /\ call.tool = "mcp_server_manager"
  /\ LET r == MCPServerManagerTool_execute(heap, manager_installed_servers, call.action, call.server_name, call.config)
     IN /\ heap' = r.heap
        /\ result' = [kind |-> r.kind, value |-> r.value]
  /\ started' = IF call.action = "start" THEN started \cup {call.server_name} ELSE started
  /\ pc' = "returned"
  /\ pre_heap' = heap
  /\ UNCHANGED <<agent_installed_servers, manager_installed_servers, smithery_config, default_client, call, proc, installed>>

\* track: whether the specification records the names install reported installed.
InstallStep(O, track) ==
  /\ pc = "calling"
  /\ call.tool = "smithery_install"
  /\ \E o \in O :
       /\ proc' = [kind |-> "exec", argv |-> create_subprocess_exec(SmitheryInstallTool_cmd_parts(default_client, call.server_name, call.client, call.config_file)), outcome |-> o]
       /\ result' = SmitheryInstallTool_execute(default_client, call.server_name, call.client, call.config_file, o)
  /\ installed' = IF track /\ result'.kind = "return" /\ result'.value.status = "installed" THEN installed \cup {call.server_name} ELSE installed
  /\ pc' = "returned"
  /\ pre_heap' = heap
  /\ UNCHANGED <<heap, agent_installed_servers, manager_installed_servers, smithery_config, default_client, call, started>>

InstallExecute(O) == InstallStep(O, FALSE)

InstallExecuteTracked(O) == InstallStep(O, TRUE)

InspectExecute(O) ==
  /\ pc = "calling"
  /\ call.tool = "smithery_inspect"
  /\ \E o \in O :
       /\ proc' = [kind |-> "exec", argv |-> create_subprocess_exec(<<"npx", "-y", "@smithery/cli@latest", "inspect", call.server_name>>), outcome |-> o]
       /\ result' = SmitheryInspectTool_execute(call.server_name, o)
  /\ pc' = "returned"
  /\ pre_heap' = heap
  /\ UNCHANGED <<heap, agent_installed_servers, manager_installed_servers, smithery_config, default_client, call, started, installed>>

SearchExecute ==
  /\ pc = "calling"
  /\ call.tool = "smithery_search"
  /\ result' = SmitherySearchTool_execute(call.query, call.limit)
  /\ pc' = "returned"
  /\ pre_heap' = heap
  /\ UNCHANGED <<heap, agent_installed_servers, manager_installed_servers, smithery_config, default_client, call, proc, started, installed>>

ListExecute ==
  /\ pc = "calling"
  /\ call.tool = "list_installed_servers"
  /\ LET r == _list_installed_servers(heap, agent_installed_servers)
     IN /\ heap' = r.heap
        /\ result' = [kind |-> r.kind, value |-> r.value]
  /\ pc' = "returned"
  /\ pre_heap' = heap
  /\ UNCHANGED <<agent_installed_servers, manager_installed_servers, smithery_config, default_client, call, proc, started, installed>>

ExecMcpToolExecute ==
  /\ pc = "calling"
  /\ call.tool = "execute_mcp_tool"
  /\ LET r == _execute_mcp_tool(heap, agent_installed_servers, call.server_name, call.tool_name, call.arguments)
     IN /\ heap' = r.heap
        /\ result' = [kind |-> r.kind, value |-> r.value]
  /\ pc' = "returned"
  /\ pre_heap' = heap
  /\ UNCHANGED <<agent_installed_servers, manager_installed_servers, smithery_config, default_client, call, proc, started, installed>>

\* The planner takes the result.
Consume ==
  /\ pc = "returned"
  /\ pc' = "idle"
  /\ call' = NoCall
  /\ result' = NoResult
  /\ proc' = NoProc
  /\ pre_heap' = heap
  /\ UNCHANGED <<heap, agent_installed_servers, manager_installed_servers, smithery_config, default_client, started, installed>>

Next ==
  \/ Invoke(ManagerCalls \cup BasicInstallCalls \cup InspectCalls \cup BasicSearchCalls \cup ListCalls \cup ExecCalls)
  \/ ManagerExecute
  \/ InstallExecute(BasicOutcomes)
  \/ InspectExecute(BasicOutcomes)
  \/ SearchExecute
  \/ ListExecute
  \/ ExecMcpToolExecute
  \/ Consume

Spec == Init /\ [][Next]_vars

\* The command tools alone, over every outcome of the external command.
NextCmd ==
  \/ Invoke(InstallCalls \cup InspectCalls \cup SearchCalls)
  \/ InstallExecute(AllOutcomes)
  \/ InspectExecute(AllOutcomes)
  \/ SearchExecute
  \/ Consume

SpecCmd == InitCmd /\ [][NextCmd]_vars

\* The whole agent again, recording which servers install reported installed; the manager
\* tool is called with no config or one config.
FlowManagerCalls == [tool : {"mcp_server_manager"}, action : Actions, server_name : ServerNames, config : {None, Dict([k \in {"key"} |-> ValPool[1]])}]

NextFlow ==
  \/ Invoke(FlowManagerCalls \cup BasicInstallCalls \cup InspectCalls \cup BasicSearchCalls \cup ListCalls \cup ExecCalls)
  \/ ManagerExecute
  \/ InstallExecuteTracked(BasicOutcomes)
  \/ InspectExecute(BasicOutcomes)
  \/ SearchExecute
  \/ ListExecute
  \/ ExecMcpToolExecute
  \/ Consume

SpecFlow == Init /\ [][NextFlow]_vars

(***************************************************************************)
(* Properties.                                                             *)
(***************************************************************************)
Registry == heap[manager_installed_servers]

PreRegistry == pre_heap[manager_installed_servers]

ManagerReturned(action) == pc = "returned" /\ call.tool = "mcp_server_manager" /\ call.action = action

ValidActions == {"start", "stop", "configure", "status"}

NotFound(action, s) == [server |-> s, action |-> action, status |-> "error", message |-> <<"Server ", s, " not found">>]

\* C1: start(s, c), from any prior state of s, reports success, and status(s) on the state
\* it leaves returns the record {running, c (the empty mapping when no config was given),
\* placeholder pid}: whatever s had before is overwritten.
C1_StartThenStatus ==
  ManagerReturned("start") =>
    /\ result.kind = "return"
    /\ result.value.status = "success"
    /\ _get_status(heap, manager_installed_servers, call.server_name).value
         = [server |-> call.server_name, info |-> [status |-> "running", config |-> IF call.config = None THEN EmptyMapping ELSE call.config, pid |-> SimulatedPID]]

\* start without a config on a server that was stopped with a non-empty config.
C1_Witness ==
  /\ ManagerReturned("start")
  /\ call.config = None
  /\ Has(PreRegistry, call.server_name)
  /\ PreRegistry.val[call.server_name].status = "stopped"
  /\ PreRegistry.val[call.server_name].config \notin {None, EmptyMapping}

\* C2: a server name start was never issued for has no record, whatever else was called,
\* and status on it answers not_installed.
C2_NeverStartedNotInstalled ==
  /\ \A s \in ServerNames \ started :
       /\ ~Has(Registry, s)
       /\ _get_status(heap, manager_installed_servers, s).value = [server |-> s, status |-> "not_installed"]
  /\ (ManagerReturned("status") /\ call.server_name \notin started) => result.value = [server |-> call.server_name, status |-> "not_installed"]

\* status(s) answered for a never-started s while another server has been started.
C2_Witness ==
  /\ ManagerReturned("status")
  /\ call.server_name \notin started
  /\ started # {}
  /\ result.value.status = "not_installed"

\* C3: stop(s) on a server with a record reports success and changes only that record's
\* status, to stopped; on a name with no record it returns the not-found error as a value
\* and changes nothing.
C3_Stop ==
  ManagerReturned("stop") =>
    /\ result.kind = "return"
    /\ IF Has(PreRegistry, call.server_name)
       THEN /\ result.value.status = "success"
            /\ heap = [pre_heap EXCEPT ![manager_installed_servers].val[call.server_name] = [status |-> "stopped", config |-> PreRegistry.val[call.server_name].config, pid |-> PreRegistry.val[call.server_name].pid]]
       ELSE /\ result.value = NotFound("stop", call.server_name)
            /\ heap = pre_heap

\* stop of a running server whose config is not empty.
C3_Witness ==
  /\ ManagerReturned("stop")
  /\ Has(PreRegistry, call.server_name)
  /\ PreRegistry.val[call.server_name].status = "running"
  /\ PreRegistry.val[call.server_name].config \notin {None, EmptyMapping}
  /\ Registry.val[call.server_name].status = "stopped"

\* C4: configure(s, c2) on a server with a record stores exactly c2 as its config and
\* changes nothing else: the record's status and pid, the other records and the key order
\* stay, and status(s) then shows c2.
C4_ConfigureReplaces ==
  (ManagerReturned("configure") /\ Has(PreRegistry, call.server_name)) =>
    /\ result.kind = "return"
    /\ result.value.status = "success"
    /\ Registry.val[call.server_name].config = call.config
    /\ heap = [pre_heap EXCEPT ![manager_installed_servers].val[call.server_name].config = call.config]
    /\ _get_status(heap, manager_installed_servers, call.server_name).value.info
         = [status |-> PreRegistry.val[call.server_name].status, config |-> call.config, pid |-> PreRegistry.val[call.server_name].pid]

\* The scenario start(s, {key: v1}) -> configure(s, {key: v2}): the record is running with
\* config {key: v2}, and another server has a record too.
C4_Witness ==
  /\ ManagerReturned("configure")
  /\ Has(PreRegistry, call.server_name)
  /\ PreRegistry.val[call.server_name] = [status |-> "running", config |-> Dict([k \in {"key"} |-> "v1"]), pid |-> SimulatedPID]
  /\ call.config = Dict([k \in {"key"} |-> "v2"])
  /\ Registry.val[call.server_name] = [status |-> "running", config |-> Dict([k \in {"key"} |-> "v2"]), pid |-> SimulatedPID]
  /\ Len(Registry.order) > 1

\* C5: configure(s, c) on a name with no record returns the not-found error as a value and
\* leaves the registry as it was: no record for s, c stored nowhere.
C5_ConfigureAbsent ==
  (ManagerReturned("configure") /\ ~Has(PreRegistry, call.server_name)) =>
    /\ result.kind = "return"
    /\ result.value = NotFound("configure", call.server_name)
    /\ heap = pre_heap
    /\ ~Has(Registry, call.server_name)

\* configure with a non-empty config on an absent name while another server has a record.
C5_Witness ==
  /\ ManagerReturned("configure")
  /\ ~Has(PreRegistry, call.server_name)
  /\ call.config \notin {None, EmptyMapping}
  /\ Len(Registry.order) > 0
  /\ result.value.status = "error"

\* C6: an action string other than the four valid ones gets a returned value with an error
\* field and valid_actions = [start, stop, configure, status], and the registry stays; each
\* valid action is dispatched to its handler whatever state the named server is in.
C6_UnknownAction ==
  (pc = "returned" /\ call.tool = "mcp_server_manager") =>
    /\ result.kind = "return"
    /\ IF call.action \notin ValidActions
       THEN /\ DOMAIN result.value = {"error", "valid_actions"}
            /\ result.value.error = <<"Unknown action: ", call.action>>
            /\ result.value.valid_actions = <<"start", "stop", "configure", "status">>
            /\ heap = pre_heap
       ELSE /\ "error" \notin DOMAIN result.value
            /\ "valid_actions" \notin DOMAIN result.value
            /\ result.value.server = call.server_name
            /\ call.action # "status" => result.value.action = call.action

\* An unknown action named for a server that has a record.
C6_Witness ==
  /\ pc = "returned"
  /\ call.tool = "mcp_server_manager"
  /\ call.action \notin ValidActions
  /\ Has(Registry, call.server_name)
  /\ "valid_actions" \in DOMAIN result.value

\* C7: whatever the external command does, install and inspect return a value and never
\* raise; the status is installed (success for inspect) exactly when the command exits with
\* code 0, and otherwise failed with a non-empty error that, when the command ran and its
\* stderr is text, carries that text.
C7_CommandResultByExitCode ==
  (pc = "returned" /\ call.tool \in {"smithery_install", "smithery_inspect"}) =>
    /\ result.kind = "return"
    /\ IF proc.outcome.kind = "exited" /\ proc.outcome.returncode = 0
       THEN result.value.status = (IF call.tool = "smithery_install" THEN "installed" ELSE "success")
       ELSE /\ result.value.status = "failed"
            /\ "error" \in DOMAIN result.value
            /\ result.value.error # <<>>
            /\ (proc.outcome.kind = "exited" /\ decode(proc.outcome.stderr).ok) => result.value.error = <<"Command failed: ", decode(proc.outcome.stderr).text>>

\* C8: execute_mcp_tool returns the not-installed error, naming the server and listing
\* exactly the registry's names, if and only if the server has no record; with a record,
\* running or stopped, it returns the stub result echoing server, tool and arguments; the
\* registry is unchanged either way.
C8_ExecuteMcpTool ==
  (pc = "returned" /\ call.tool = "execute_mcp_tool") =>
    /\ result.kind = "return"
    /\ heap = pre_heap
    /\ IF ~Has(Registry, call.server_name)
       THEN /\ DOMAIN result.value = {"error"}
            /\ result.value.error[2] = call.server_name
            /\ {result.value.error[4][i] : i \in 1..Len(result.value.error[4])} = Keys(Registry)
            /\ Len(result.value.error[4]) = Cardinality(Keys(Registry))
       ELSE /\ "error" \notin DOMAIN result.value
            /\ result.value.status = "executed"
            /\ result.value.server = call.server_name
            /\ result.value.tool = call.tool_name
            /\ result.value.arguments = call.arguments

\* execute_mcp_tool on a server whose record is stopped.
C8_Witness ==
  /\ pc = "returned"
  /\ call.tool = "execute_mcp_tool"
  /\ Has(Registry, call.server_name)
  /\ Registry.val[call.server_name].status = "stopped"
  /\ result.value.status = "executed"

\* C9: the agent and the manager tool hold one registry: list_installed_servers returns the
\* records the manager tool holds, as many as the names start was ever issued for, and no
\* call removes a record.
C9_SharedRegistry ==
  /\ agent_installed_servers = manager_installed_servers
  /\ Keys(heap[manager_installed_servers]) = started
  /\ Keys(heap[agent_installed_servers]) = started
  /\ Keys(PreRegistry) \subseteq Keys(Registry)
  /\ (pc = "returned" /\ call.tool = "list_installed_servers") =>
       /\ result.kind = "return"
       /\ result.value.installed_servers = heap[manager_installed_servers]
       /\ result.value.count = Cardinality(started)

\* list_installed_servers after two servers were started and one of them stopped.
C9_Witness ==
  /\ pc = "returned"
  /\ call.tool = "list_installed_servers"
  /\ result.value.count > 1
  /\ \E s \in started : result.value.installed_servers.val[s].status = "stopped"
  /\ \E s \in started : result.value.installed_servers.val[s].status = "running"

\* C10: every stored record has a status of running or stopped, a config that is a mapping,
\* and a process handle, whatever arguments the manager actions were given.
C10_RecordsWellFormed ==
  \A s \in Keys(Registry) :
    /\ Registry.val[s].status \in {"running", "stopped"}
    /\ IsMapping(Registry.val[s].config)
    /\ "pid" \in DOMAIN Registry.val[s]
    /\ Registry.val[s].pid = SimulatedPID

InstallReturned == pc = "returned" /\ call.tool = "smithery_install"

ConfiguredDefaultClient == IF "default_client" \in DOMAIN smithery_config.items THEN smithery_config.items["default_client"] ELSE "claude"

InstallArgv(server_name, c, with_config, config_file) == <<"npx", "-y", "@smithery/cli", "install", server_name, "--client", c>> \o (IF with_config THEN <<"--config", config_file>> ELSE <<>>)

\* C11 as stated: install runs the vector <npx -y @smithery/cli> install serverName --client c
\* [--config configFile], c being the supplied client, or the configured default_client
\* ("claude" without one) when none is supplied, the --config pair there exactly when a
\* config file is supplied, each argument one element of the vector, and the result's client
\* field is c.
C11_InstallArgvAsSupplied ==
  InstallReturned =>
    LET c == IF call.client = None THEN ConfiguredDefaultClient ELSE call.client.val
    IN /\ proc.argv = InstallArgv(call.server_name, c, call.config_file # None, call.config_file.val)
       /\ result.value.client = c

\* C11 amended: as C11, an empty client string counting as no client and an empty config file
\* string as no config file.
C11_InstallArgv ==
  InstallReturned =>
    LET c == IF call.client \in {None, Str("")} THEN ConfiguredDefaultClient ELSE call.client.val
    IN /\ proc.argv = InstallArgv(call.server_name, c, call.config_file \notin {None, Str("")}, call.config_file.val)
       /\ result.kind = "return"
       /\ result.value.client = c
       /\ result.value.server = call.server_name

\* install with no client and a config file, on an agent configured with default_client cursor.
C11_Witness ==
  /\ InstallReturned
  /\ call.client = None
  /\ "default_client" \in DOMAIN smithery_config.items
  /\ call.config_file = Str("config.json")
  /\ proc.argv = <<"npx", "-y", "@smithery/cli", "install", call.server_name, "--client", "cursor", "--config", "config.json">>
  /\ result.value.client = "cursor"

SearchReturned == pc = "returned" /\ call.tool = "smithery_search"

C13_OnlyManagerChangesRegistry ==
  /\ heap # pre_heap => (pc = "returned" /\ call.tool = "mcp_server_manager" /\ call.action \in {"start", "stop", "configure"})
  /\ (pc = "returned" /\ call.tool \in {"smithery_search", "smithery_install", "smithery_inspect", "list_installed_servers", "execute_mcp_tool"}) => heap = pre_heap
  /\ (pc = "returned" /\ call.tool = "mcp_server_manager" /\ call.action \notin {"start", "stop", "configure"}) => heap = pre_heap
  /\ \A s \in installed \ started : ~Has(heap[agent_installed_servers], s) /\ ~Has(Registry, s)
  /\ (pc = "returned" /\ call.tool = "execute_mcp_tool" /\ call.server_name \in installed \ started) =>
       /\ result.kind = "return"
       /\ DOMAIN result.value = {"error"}
       /\ result.value.error = <<"Server '", call.server_name, "' not installed. Available servers: ", Registry.order>>

\* execute_mcp_tool on a server install reported installed and nobody started, while another
\* server has been started: the answer is the not-installed error.
C13_Witness ==
  /\ pc = "returned"
  /\ call.tool = "execute_mcp_tool"
  /\ call.server_name \in installed \ started
  /\ started # {}
  /\ "error" \in DOMAIN result.value

====
